---- MODULE Spec2Model ----
(***************************************************************************)
(* pci_debug: command interpreter and memory access engine of the PCI BAR  *)
(* debugger (src/pci_debug.c).  The state is the mapped region, the endian *)
(* flag and the command loop; every action is one iteration of the loop of *)
(* parse_command on one input line.                                        *)
(***************************************************************************)
EXTENDS Integers, Sequences, FiniteSets, TLC

VARIABLES
    mem,         \* bytes of the region: dev->addr[0 .. dev->size-1]
    big_endian,  \* static int big_endian
    host,        \* __BYTE_ORDER of the build
    run,         \* the command loop: "Running", "Terminated", "Killed"
    line,        \* the line the loop read last
    out,         \* what the last line printed
    loc,         \* locals of display_mem / change_mem / fill_mem at their switch
    records,     \* (address, value) pairs printed by the last display_mem
    acc,         \* units the last line loaded or stored: [addr, n]
    nlines       \* number of lines read so far

vars == <<mem, big_endian, host, run, line, out, loc, records, acc, nlines>>

----------------------------------------------------------------------------
(* Bounds of the model *)

\* dev->size: the size in bytes of the mapped region (fstat of the resource)
Size == 16

\* number of lines the loop reads
MaxLines == 3

----------------------------------------------------------------------------
(* C integers *)

\* The model checker's integers are 32 bits wide and signed, as C's int is.
\* An unsigned int is held as the int with the same 32 bits (0xFFFFFFFF as
\* -1), so that \div and % by a power of two give its bytes, and sums wrap
\* through Add32.

W8 == 256

W16 == 65536

\* 2^24, the weight of the top byte of 32 bits
W24 == 16777216

\* byte k of x, k = 0 the least significant
Byte(x, k) ==
    CASE k = 0 -> x % W8
      [] k = 1 -> (x \div W8) % W8
      [] k = 2 -> (x \div W16) % W8
      [] k = 3 -> (x \div W24) % W8

\* the 32 bits b3 b2 b1 b0
Bits32(b0, b1, b2, b3) ==
    b0 + b1 * W8 + b2 * W16 + (IF b3 >= 128 THEN b3 - W8 ELSE b3) * W24

\* a + b in 32 bits, wrapping
Add32(a, b) ==
    LET lo == (a % W16) + (b % W16)
        hi == ((a \div W16) + (b \div W16) + (lo \div W16)) % W16
    IN  (IF hi >= W16 \div 2 THEN hi - W16 ELSE hi) * W16 + (lo % W16)

\* a < b as unsigned ints
ULess(a, b) == IF (a < 0) = (b < 0) THEN a < b ELSE b < 0

\* int division truncates toward zero
CDiv(a, b) == IF a >= 0 THEN a \div b ELSE -((-a) \div b)

\* <byteswap.h>
bswap_16(x) == Byte(x, 0) * W8 + Byte(x, 1)

bswap_32(x) == Bits32(Byte(x, 3), Byte(x, 2), Byte(x, 1), Byte(x, 0))

----------------------------------------------------------------------------
(* The mapped region and raw loads and stores *)

\* a unit of n bytes at addr lies inside the region
InRegion(addr, n) == addr + n <= Size

\* byte k (in address order) of an n-byte value as the host stores it
NativeByte(data, n, k) ==
    IF host = "little" THEN Byte(data, k) ELSE Byte(data, n - 1 - k)

\* *(volatile T *)(dev->addr + addr) = data: the bytes that fall inside the
\* region change it, the bytes beyond it land outside the region
StoreNative(m, addr, data, n) ==
    [a \in DOMAIN m |->
        IF a >= addr /\ a < addr + n THEN NativeByte(data, n, a - addr) ELSE m[a]]

\* the byte at address a; beyond the region the load yields whatever lies
\* there (junk)
ByteAt(m, a, junk) == IF a < Size THEN m[a] ELSE junk

\* data = *(volatile T *)(dev->addr + addr)
LoadNative(m, addr, n, junk) ==
    LET b(k) == ByteAt(m, addr + (IF host = "little" THEN k ELSE n - 1 - k), junk)
    IN  CASE n = 1 -> b(0)
          [] n = 2 -> b(0) + b(1) * W8
          [] n = 4 -> Bits32(b(0), b(1), b(2), b(3))

\* write_8 storing through a 16-bit pointer
write_8_wide(m, addr, data) == StoreNative(m, addr, data, 2)

write_8(m, addr, data) == StoreNative(m, addr, data, 1)

read_8(m, addr, junk) == LoadNative(m, addr, 1, junk)

write_le16(m, addr, data) ==
    StoreNative(m, addr, IF host # "little" THEN bswap_16(data) ELSE data, 2)

read_le16(m, addr, junk) ==
    LET data == LoadNative(m, addr, 2, junk)
    IN  IF host # "little" THEN bswap_16(data) ELSE data

\* write_be16 with the host test of write_le16
write_be16_letest(m, addr, data) ==
    StoreNative(m, addr, IF host # "little" THEN bswap_16(data) ELSE data, 2)

write_be16(m, addr, data) ==
    StoreNative(m, addr, IF host = "little" THEN bswap_16(data) ELSE data, 2)

\* read_be16 without its swap on a little-endian host
read_be16_noswap(m, addr, junk) == LoadNative(m, addr, 2, junk)

read_be16(m, addr, junk) ==
    LET data == LoadNative(m, addr, 2, junk)
    IN  IF host = "little" THEN bswap_16(data) ELSE data

write_le32(m, addr, data) ==
    StoreNative(m, addr, IF host # "little" THEN bswap_32(data) ELSE data, 4)

read_le32(m, addr, junk) ==
    LET data == LoadNative(m, addr, 4, junk)
    IN  IF host # "little" THEN bswap_32(data) ELSE data

write_be32(m, addr, data) ==
    StoreNative(m, addr, IF host = "little" THEN bswap_32(data) ELSE data, 4)

read_be32(m, addr, junk) ==
    LET data == LoadNative(m, addr, 4, junk)
    IN  IF host = "little" THEN bswap_32(data) ELSE data

----------------------------------------------------------------------------
(* Input lines *)

\* A line is its first character c0, the text right after it (suffix: "" when
\* the line ends there, " " when a blank follows the command letter, else the
\* characters up to the first blank), and the hexadecimal tokens after that,
\* as %x converts them.
Line(c0, suffix, args) == [c0 |-> c0, suffix |-> suffix, args |-> args]

NoLine == Line("", "", <<>>)

\* %d on the text after the command letter: the digits it converts
ScanDec(s) ==
    CASE s = "8"  -> 8
      [] s = "16" -> 16
      [] s = "32" -> 32
      [] s = "64" -> 64
      [] OTHER    -> 0

IsDigits(s) == s \in {"8", "16", "32", "64"}

Min(a, b) == IF a < b THEN a ELSE b

\* sscanf(cmd, "%*c %x ... %x"): the number of conversions, EOF at end of input
ScanHex(l, n) == IF Len(l.args) = 0 THEN -1 ELSE Min(Len(l.args), n)

\* sscanf(cmd, "%*c%d %x ... %x")
ScanDecHex(l, n) ==
    IF l.suffix = "" THEN -1
    ELSE IF ~IsDigits(l.suffix) THEN 0
    ELSE 1 + Min(Len(l.args), n)

\* the k-th hexadecimal token, or the initial value of the local it would set
Arg(l, k, initial) == IF k <= Len(l.args) THEN l.args[k] ELSE initial

----------------------------------------------------------------------------
(* Locals of the three memory commands when they reach their switch *)

Locals(fn, width, addr, val, len, inc) ==
    [fn |-> fn, width |-> width, addr |-> addr, val |-> val, len |-> len, inc |-> inc]

NoLocals == Locals("", 0, 0, 0, 0, 0)

\* what a line that touches nothing leaves behind
Quiet(l, printed) ==
    /\ line' = l
    /\ out' = printed
    /\ loc' = NoLocals
    /\ records' = <<>>
    /\ acc' = {}
    /\ nlines' = nlines + 1
    /\ UNCHANGED <<mem, host, run>>

\* the step of the loop of parse_command that reads a line
Reads == run = "Running" /\ nlines < MaxLines

----------------------------------------------------------------------------
(* Accesses beyond the region *)

\* index of the first unit of the sequence that is not inside the region
RECURSIVE FirstOutside(_, _, _)
FirstOutside(units, n, k) ==
    IF k > Len(units) THEN k
    ELSE IF ~InRegion(units[k].addr, n) THEN k
    ELSE FirstOutside(units, n, k + 1)

\* a load or store beyond the region is undefined: it either faults, which
\* kills the process at that access, or it goes through
Faults(units, n, fault) == fault /\ FirstOutside(units, n, 1) <= Len(units)

\* the units whose access completed
Completed(units, n, fault) ==
    IF Faults(units, n, fault)
    THEN SubSeq(units, 1, FirstOutside(units, n, 1) - 1)
    ELSE units

\* the units whose access was issued
Issued(units, n, fault) ==
    IF Faults(units, n, fault)
    THEN SubSeq(units, 1, FirstOutside(units, n, 1))
    ELSE units

\* what a load beyond the region may find there
OutsideBytes == {0, 255}

AccessLog(units, n) == {[addr |-> units[k].addr, n |-> n] : k \in DOMAIN units}

----------------------------------------------------------------------------
(* Width and endian dispatch of the three memory commands *)

Widths == {8, 16, 32}

\* the switch (width) of display_mem: the read function of each case
read_unit(m, width, addr, junk) ==
    CASE width = 8  -> read_8(m, addr, junk)
      [] width = 16 -> IF big_endian = 0 THEN read_le16(m, addr, junk)
                       ELSE read_be16(m, addr, junk)
      [] width = 32 -> IF big_endian = 0 THEN read_le32(m, addr, junk)
                       ELSE read_be32(m, addr, junk)

\* the switch (width) of change_mem and fill_mem: the write function of each case
write_unit(m, width, addr, data) ==
    CASE width = 8  -> write_8(m, addr, data)
      [] width = 16 -> IF big_endian = 0 THEN write_le16(m, addr, data)
                       ELSE write_be16(m, addr, data)
      [] width = 32 -> IF big_endian = 0 THEN write_le32(m, addr, data)
                       ELSE write_be32(m, addr, data)

\* (unsigned char)d32, (unsigned short)d32, d32
Truncate(width, d32) ==
    CASE width = 8  -> d32 % W8
      [] width = 16 -> d32 % W16
      [] width = 32 -> d32

\* the stores of a sequence of units [addr, val], in order
RECURSIVE StoreAll(_, _, _, _)
StoreAll(m, width, units, k) ==
    IF k > Len(units) THEN m
    ELSE StoreAll(write_unit(m, width, units[k].addr, units[k].val), width, units, k + 1)

\* Truncate: if ((addr + len) > dev->size) len = dev->size;
ClampLen(addr, len) == IF ULess(Size, Add32(addr, len)) THEN Size ELSE len

----------------------------------------------------------------------------
(* display_mem *)

display_parsed(l) ==
    IF l.suffix = " " THEN ScanHex(l, 2) = 2 ELSE ScanDecHex(l, 2) = 3

display_width(l) == IF l.suffix = " " THEN 32 ELSE ScanDec(l.suffix)

\* for (i = 0; i < len; i += width/8): the addresses addr+i
RECURSIVE display_units(_, _, _, _)
display_units(addr, n, len, i) ==
    IF i < len
    THEN <<[addr |-> addr + i]>> \o display_units(addr, n, len, i + n)
    ELSE <<>>

display_mem(l) ==
    /\ Reads
    /\ l.c0 \in {"d", "D"}
    /\ UNCHANGED big_endian
    /\ IF ~display_parsed(l) THEN Quiet(l, "syntax")
       ELSE IF ULess(Size, Arg(l, 1, 0)) THEN Quiet(l, "invalid address")
       ELSE LET width == display_width(l)
                addr  == Arg(l, 1, 0)
                len   == ClampLen(addr, Arg(l, 2, 0))
                units == IF width \in Widths
                         THEN display_units(addr, width \div 8, len, 0) ELSE <<>>
            IN  \E fault \in BOOLEAN, junk \in OutsideBytes :
                  LET done == Completed(units, width \div 8, fault)
                  IN  /\ line' = l
                      /\ out' = IF width \in Widths THEN "dump" ELSE "syntax"
                      /\ loc' = Locals("display", width, addr, 0, len, 0)
                      /\ records' = [k \in DOMAIN done |->
                                        [addr |-> done[k].addr,
                                         val  |-> read_unit(mem, width, done[k].addr, junk)]]
                      /\ acc' = AccessLog(Issued(units, width \div 8, fault), width \div 8)
                      /\ run' = IF Faults(units, width \div 8, fault) THEN "Killed" ELSE run
                      /\ nlines' = nlines + 1
                      /\ UNCHANGED <<mem, host>>

----------------------------------------------------------------------------
(* change_mem *)

change_parsed(l) ==
    IF l.suffix = " " THEN ScanHex(l, 2) = 2 ELSE ScanDecHex(l, 2) = 3

change_width(l) == IF l.suffix = " " THEN 32 ELSE ScanDec(l.suffix)

change_mem(l) ==
    /\ Reads
    /\ l.c0 \in {"c", "C"}
    /\ UNCHANGED big_endian
    /\ IF ~change_parsed(l) THEN Quiet(l, "syntax")
       ELSE IF ULess(Size, Arg(l, 1, 0)) THEN Quiet(l, "invalid address")
       ELSE LET width == change_width(l)
                addr  == Arg(l, 1, 0)
                d32   == Arg(l, 2, 0)
                units == IF width \in Widths
                         THEN <<[addr |-> addr, val |-> Truncate(width, d32)]>> ELSE <<>>
            IN  \E fault \in BOOLEAN :
                  /\ line' = l
                  /\ out' = IF width \in Widths THEN "" ELSE "syntax"
                  /\ loc' = Locals("change", width, addr, d32, 0, 0)
                  /\ records' = <<>>
                  /\ mem' = StoreAll(mem, width, Completed(units, width \div 8, fault), 1)
                  /\ acc' = AccessLog(Issued(units, width \div 8, fault), width \div 8)
                  /\ run' = IF Faults(units, width \div 8, fault) THEN "Killed" ELSE run
                  /\ nlines' = nlines + 1
                  /\ UNCHANGED host

----------------------------------------------------------------------------
(* fill_mem *)

fill_parsed(l) ==
    IF l.suffix = " "
    THEN ScanHex(l, 4) \in {3, 4}
    ELSE ScanDecHex(l, 4) \in {3, 4}

fill_width(l) == IF l.suffix = " " THEN 32 ELSE ScanDec(l.suffix)

\* int inc = 0; set by the fourth %x, then overwritten by the status tests
fill_inc(l) ==
    IF l.suffix = " "
    THEN IF ScanHex(l, 4) = 3 THEN 1 ELSE Arg(l, 4, 0)
    ELSE IF ScanDecHex(l, 4) = 4 THEN 1 ELSE Arg(l, 4, 0)

\* for (i = 0; i < len/(width/8); i++): the unit at addr + (width/8)*i gets
\* d32 + i*inc, cast to the width
\* fill_units adding inc once instead of i times
RECURSIVE fill_units_flatinc(_, _, _, _, _, _)
fill_units_flatinc(width, addr, d32, len, inc, i) ==
    IF i < CDiv(len, width \div 8)
    THEN <<[addr |-> addr + (width \div 8) * i,
            val  |-> Truncate(width, Add32(d32, inc))]>>
         \o fill_units_flatinc(width, addr, d32, len, inc, i + 1)
    ELSE <<>>

RECURSIVE fill_units(_, _, _, _, _, _)
fill_units(width, addr, d32, len, inc, i) ==
    IF i < CDiv(len, width \div 8)
    THEN <<[addr |-> addr + (width \div 8) * i,
            val  |-> Truncate(width, Add32(d32, i * inc))]>>
         \o fill_units(width, addr, d32, len, inc, i + 1)
    ELSE <<>>

fill_mem(l) ==
    /\ Reads
    /\ l.c0 \in {"f", "F"}
    /\ UNCHANGED big_endian
    /\ IF ~fill_parsed(l) THEN Quiet(l, "syntax")
       ELSE IF ULess(Size, Arg(l, 1, 0)) THEN Quiet(l, "invalid address")
       ELSE LET width == fill_width(l)
                addr  == Arg(l, 1, 0)
                d32   == Arg(l, 2, 0)
                len   == ClampLen(addr, Arg(l, 3, 0))
                inc   == fill_inc(l)
                units == IF width \in Widths
                         THEN fill_units(width, addr, d32, len, inc, 0) ELSE <<>>
            IN  \E fault \in BOOLEAN :
                  /\ line' = l
                  /\ out' = IF width \in Widths THEN "" ELSE "syntax"
                  /\ loc' = Locals("fill", width, addr, d32, len, inc)
                  /\ records' = <<>>
                  /\ mem' = StoreAll(mem, width, Completed(units, width \div 8, fault), 1)
                  /\ acc' = AccessLog(Issued(units, width \div 8, fault), width \div 8)
                  /\ run' = IF Faults(units, width \div 8, fault) THEN "Killed" ELSE run
                  /\ nlines' = nlines + 1
                  /\ UNCHANGED host

----------------------------------------------------------------------------
(* change_endian *)

\* %c on the text after the command letter: its first character
ScanChar(s) ==
    CASE s = "16" -> "1"
      [] s = "32" -> "3"
      [] s = "64" -> "6"
      [] OTHER    -> s

\* endian_after with the default case falling into case 'b'
endian_after_fallthrough(l) ==
    IF l.suffix = "" THEN big_endian
    ELSE CASE ScanChar(l.suffix) = "l" -> 0
           [] OTHER -> 1

\* the value of big_endian after the line
endian_after(l) ==
    IF l.suffix = "" THEN big_endian
    ELSE CASE ScanChar(l.suffix) = "b" -> 1
           [] ScanChar(l.suffix) = "l" -> 0
           [] OTHER -> big_endian

endian_printed(l) ==
    IF l.suffix = ""
    THEN IF big_endian = 0 THEN "little-endian" ELSE "big-endian"
    ELSE IF ScanChar(l.suffix) \in {"b", "l"} THEN "" ELSE "syntax"

change_endian(l) ==
    /\ Reads
    /\ l.c0 \in {"e", "E"}
    /\ big_endian' = endian_after(l)
    /\ Quiet(l, endian_printed(l))

----------------------------------------------------------------------------
(* process_command: the cases that call no function, and parse_command *)

display_help(l) ==
    /\ Reads
    /\ l.c0 = "?"
    /\ UNCHANGED big_endian
    /\ Quiet(l, "help")

\* case 'q': return -1, and parse_command breaks out of its loop
quit(l) ==
    /\ Reads
    /\ l.c0 \in {"q", "Q"}
    /\ line' = l
    /\ out' = ""
    /\ loc' = NoLocals
    /\ records' = <<>>
    /\ acc' = {}
    /\ run' = "Terminated"
    /\ nlines' = nlines + 1
    /\ UNCHANGED <<mem, host, big_endian>>

\* default: break; return 0
default_case(l) ==
    /\ Reads
    /\ l.c0 \notin {"?", "c", "C", "d", "D", "e", "E", "f", "F", "q", "Q"}
    /\ UNCHANGED big_endian
    /\ Quiet(l, "")

\* readline returned an empty line, or NULL at the end of the input: continue
no_line ==
    /\ Reads
    /\ UNCHANGED big_endian
    /\ Quiet(NoLine, "")

----------------------------------------------------------------------------
(* The lines fed to the loop *)

\* the token FFFFFFFF: -1 as an int
AllOnes == Bits32(255, 255, 255, 255)

HelpLines == {Line("?", "", <<>>)}

QuitLines == {Line("q", "", <<>>), Line("Q", "", <<>>)}

OtherLines == {Line("x", "", <<>>)}

EndianLines ==
    {Line("e", s, <<>>) : s \in {"", "b", "l", "x"}} \cup {Line("E", "b", <<>>)}

\* c[width] addr val: inside the region at 4, across its end at size-1, at
\* its end, beyond it; the default width; too few tokens; a width of 64
ChangeLines ==
    {Line("c", "8", <<4, \h196E>>), Line("c", "16", <<4, \h196E>>),
     Line("c", "16", <<4, \hAAB565>>), Line("c", "32", <<0, AllOnes>>),
     Line("c", "32", <<4, \hAAB565>>), Line("C", " ", <<4, \hAAB565>>),
     Line("c", "16", <<Size - 1, \h196E>>), Line("c", "32", <<Size, \hAAB565>>),
     Line("c", "8", <<AllOnes, \h196E>>), Line("c", "64", <<4, \h196E>>),
     Line("c", "32", <<4>>), Line("c", " ", <<4>>), Line("c", "", <<>>)}

\* d[width] addr len
DisplayLines ==
    {Line("d", w, <<4, 1>>) : w \in {"8", "16", "32"}}
    \cup {Line("d", "16", <<4, 4>>), Line("d", "32", <<0, \h10>>),
          Line("d", "8", <<0, \h10>>), Line("d", "32", <<0, 1>>),
          Line("d", " ", <<0, \hA>>), Line("D", "8", <<0, 4>>),
          Line("d", "32", <<Size - 1, 1>>), Line("d", "16", <<4, \h10>>),
          Line("d", "8", <<4, AllOnes>>), Line("d", "8", <<Size + 1, 1>>),
          Line("d", "64", <<0, 4>>),
          Line("d", "32", <<4>>), Line("d", " ", <<4>>), Line("d", "", <<>>)}

\* f[width] addr val len [inc]
FillLines ==
    {Line("f", " ", args) :
        args \in {<<0, \hA5, \h10>>, <<0, \hA5, \h10, 1>>, <<0, \hA5, \h10, 2>>,
                  <<4, \hA5, 8, AllOnes>>, <<0, AllOnes, 8, 1>>, <<0, \hA5>>}}
    \cup {Line("f", "32", <<0, \hA5, \h10>>), Line("f", "32", <<0, \hA5, \h10, 1>>),
          Line("f", "16", <<0, \hA5, \h10>>), Line("f", "16", <<0, \hA5, \h10, 2>>),
          Line("f", "8", <<0, \hFE, 4>>), Line("F", "16", <<4, \hA5, 4>>),
          Line("f", "8", <<4, \hA5, \h10>>), Line("f", "16", <<0, \hA5>>),
          Line("f", "8", <<Size + 1, \hA5, 4>>), Line("f", "64", <<0, \hA5, 4>>),
          Line("f", "32", <<0>>), Line("f", "", <<>>)}

Lines ==
    HelpLines \cup QuitLines \cup OtherLines \cup EndianLines
        \cup ChangeLines \cup DisplayLines \cup FillLines

----------------------------------------------------------------------------
(* The program *)

\* the region holds whatever the device holds when the session starts
InitialByte(a) == (17 * a + 1) % W8

Init ==
    /\ mem = [a \in 0 .. Size - 1 |-> InitialByte(a)]
    /\ big_endian = 0
    /\ host \in {"little", "big"}
    /\ run = "Running"
    /\ line = NoLine
    /\ out = ""
    /\ loc = NoLocals
    /\ records = <<>>
    /\ acc = {}
    /\ nlines = 0

Next ==
    \/ \E l \in Lines : display_help(l)
    \/ \E l \in Lines : change_mem(l)
    \/ \E l \in Lines : display_mem(l)
    \/ \E l \in Lines : change_endian(l)
    \/ \E l \in Lines : fill_mem(l)
    \/ \E l \in Lines : quit(l)
    \/ \E l \in Lines : default_case(l)
    \/ no_line

Spec == Init /\ [][Next]_vars

----------------------------------------------------------------------------
(* Properties *)

\* the bytes of the region at addr .. addr+n-1 are those of val, most
\* significant first when msb_first, least significant first otherwise
Holds(m, addr, n, val, msb_first) ==
    \A k \in 0 .. n - 1 :
        m[addr + k] = IF msb_first THEN Byte(val, n - 1 - k) ELSE Byte(val, k)

\* x is y cut to width bits
IsTruncated(x, y, width) ==
    /\ \A k \in 0 .. (width \div 8) - 1 : Byte(x, k) = Byte(y, k)
    /\ width < 32 => (x >= 0 /\ \A k \in (width \div 8) .. 3 : Byte(x, k) = 0)

KnownWidth(l) == l.suffix \in {" ", "8", "16", "32"}

\* C1: every unit a line loads or stores lies inside the region:
\* addr + width/8 <= size for every access of every display, change and fill.
C1_AccessesInBounds == \A u \in acc : u.addr + u.n <= Size

\* the len token of a display or fill line
RequestedLen(l) == IF l.c0 \in {"d", "D"} THEN Arg(l, 2, 0) ELSE Arg(l, 3, 0)

\* C2: display and fill iterate over exactly size - addr bytes when the start
\* address is inside the region and addr + len > size, and over len bytes
\* when addr + len <= size.
C2_LengthClamped ==
    (loc.fn \in {"display", "fill"} /\ loc.addr < Size /\ RequestedLen(line) >= 0)
        => loc.len = IF loc.addr + RequestedLen(line) > Size
                     THEN Size - loc.addr
                     ELSE RequestedLen(line)

\* C3: after fill(width, addr, value, len, inc) with addr + len <= size and
\* len a multiple of width/8, unit i at addr + i*(width/8) reads back, at the
\* same width and in the same endian mode, as value + i*inc cut to width bits,
\* for every i below len/(width/8).
C3_FillPattern ==
    (/\ loc.fn = "fill"
     /\ loc.width \in Widths
     /\ loc.len >= 0
     /\ loc.addr + loc.len <= Size
     /\ loc.len % (loc.width \div 8) = 0)
        => \A i \in 0 .. (loc.len \div (loc.width \div 8)) - 1 :
              IsTruncated(read_unit(mem, loc.width, loc.addr + i * (loc.width \div 8), 0),
                          loc.val + i * loc.inc, loc.width)

\* fill(32, 0, 0xA5, 16, 1) has left A5, A6, A7, A8 at 0, 4, 8, 12 in
\* big-endian mode
C3_Witness ==
    /\ loc = Locals("fill", 32, 0, \hA5, \h10, 1)
    /\ big_endian = 1
    /\ \A i \in 0 .. 3 : read_unit(mem, 32, 4 * i, 0) = \hA5 + i

\* C4: a fill line with addr, val and len is accepted with or without the
\* inc token, in the form without a width and in the form with one; the fill
\* uses inc when it is given and 1 when it is not.
C4_IncrementToken ==
    (/\ line.c0 \in {"f", "F"}
     /\ KnownWidth(line)
     /\ Len(line.args) >= 3
     /\ ~ULess(Size, line.args[1]))
        => /\ loc.fn = "fill"
           /\ loc.inc = IF Len(line.args) >= 4 THEN line.args[4] ELSE 1

\* C5: a change of v at addr followed by a display of the same width at the
\* same addr, addr + width/8 <= size, shows v cut to width bits, in either
\* endian mode.
C5_RoundTrip ==
    [][(/\ loc.fn = "change"
        /\ loc.width \in Widths
        /\ loc.addr + (loc.width \div 8) <= Size
        /\ loc'.fn = "display"
        /\ loc'.width = loc.width
        /\ loc'.addr = loc.addr
        /\ loc'.len >= 1)
          => /\ Len(records') >= 1
             /\ records'[1].addr = loc.addr
             /\ IsTruncated(records'[1].val, loc.val, loc.width)]_vars

\* a 16-bit display in big-endian mode shows the 196E a change put at 4
C5_Witness ==
    /\ loc.fn = "display"
    /\ loc.addr = 4
    /\ loc.width = 16
    /\ big_endian = 1
    /\ Len(records) >= 1
    /\ records[1].val = \h196E

\* C6: a 16- or 32-bit change stores the most significant byte of the value
\* at the lowest address in big-endian mode and the least significant byte
\* there in little-endian mode, on either host; an 8-bit change stores the
\* same byte in both modes.
C6_ByteOrder ==
    (/\ loc.fn = "change"
     /\ loc.width \in Widths
     /\ loc.addr + (loc.width \div 8) <= Size)
        => Holds(mem, loc.addr, loc.width \div 8, loc.val, big_endian = 1)

\* 196E at 4 as 16 bits: 19, 6E in big-endian mode on a little-endian host
C6_Witness ==
    /\ loc = Locals("change", 16, 4, \h196E, 0, 0)
    /\ big_endian = 1
    /\ host = "little"
    /\ mem[4] = \h19
    /\ mem[5] = \h6E

\* C7: the loop is Running until it reads a line that starts with q or Q,
\* which terminates it; every other line leaves it Running.
C7_RunState ==
    IF line.c0 \in {"q", "Q"} THEN run = "Terminated" ELSE run = "Running"

\* a display, change or fill line with fewer tokens than its form requires
Short(l) ==
    \/ l.c0 \in {"d", "D", "c", "C"} /\ Len(l.args) < 2
    \/ l.c0 \in {"f", "F"} /\ Len(l.args) < 3

\* C8: a display, change or fill line with too few tokens is rejected as a
\* syntax error, accesses no byte of the region and leaves the endian mode.
C8_ShortRejected ==
    [][Short(line')
          => /\ out' = "syntax"
             /\ loc' = NoLocals
             /\ acc' = {}
             /\ mem' = mem
             /\ big_endian' = big_endian]_vars

\* the endian mode a line is to leave behind
C9_ModeAfter(l, mode) ==
    IF l.c0 \in {"e", "E"} /\ l.suffix = "b" THEN 1
    ELSE IF l.c0 \in {"e", "E"} /\ l.suffix = "l" THEN 0
    ELSE mode

C10_InvalidReported ==
    (line # NoLine
     /\ line.c0 \notin {"?", "c", "C", "d", "D", "e", "E", "f", "F", "q", "Q"})
        => /\ out = "syntax"
           /\ acc = {}
           /\ run = "Running"

\* the number of unit offsets 0, n, 2n, ... that are strictly less than len
UnitsBelow(len, n) == (len + n - 1) \div n

\* C11: display(width, addr, len) with addr + len <= size prints one record
\* per unit, in ascending address order, at addr, addr + width/8, ... for
\* every unit offset strictly less than len, and the value of each record is
\* the content of the region at that address, decoded at that width in the
\* current endian mode.
C11_DisplayIteration ==
    (/\ loc.fn = "display"
     /\ loc.width \in Widths
     /\ RequestedLen(line) >= 0
     /\ loc.addr + RequestedLen(line) <= Size)
        => /\ Len(records) = UnitsBelow(RequestedLen(line), loc.width \div 8)
           /\ \A k \in DOMAIN records :
                /\ records[k].addr = loc.addr + (k - 1) * (loc.width \div 8)
                /\ InRegion(records[k].addr, loc.width \div 8)
                /\ IsTruncated(records[k].val, records[k].val, loc.width)
                /\ Holds(mem, records[k].addr, loc.width \div 8,
                         records[k].val, big_endian = 1)

\* C12: help, display, show-endian, set-endian, quit and rejected lines
\* (syntax error or address out of range) leave every byte of the region as
\* it was; an accepted change(width, addr, value) changes no byte of the
\* region outside the width/8 bytes that start at addr.
C12_MemoryFrame ==
    [][/\ line'.c0 \notin {"c", "C", "f", "F"} => mem' = mem
       /\ out' \in {"syntax", "invalid address"} => mem' = mem
       /\ (loc'.fn = "change" /\ loc'.width \in Widths)
             => \A a \in DOMAIN mem :
                   (a < loc'.addr \/ a >= loc'.addr + (loc'.width \div 8))
                       => mem'[a] = mem[a]]_vars

\* an 8-bit change of 196E at 4 has stored 6E there and left the bytes at 3
\* and 5 as the device had them
C12_Witness ==
    /\ loc = Locals("change", 8, 4, \h196E, 0, 0)
    /\ mem[4] = \h6E
    /\ mem[3] = InitialByte(3)
    /\ mem[5] = InitialByte(5)

====
